---- MODULE Spec2Model ----
(***************************************************************************)
(* A model of nettool.py: the saved host list (hosts.json), the result     *)
(* history (results.json), the retry loop of ping_host around ping_once,   *)
(* and the commands add, remove, list, ping, scan, report and export.      *)
(*                                                                         *)
(* Python strings are sequences of code points, so that str.strip and the  *)
(* lexicographic comparison of str are modelled by what they do.  An       *)
(* optional value (float|None, int|None) is the empty sequence for None    *)
(* and a one-element sequence <<x>> otherwise.                             *)
(***************************************************************************)
EXTENDS Integers, Sequences, FiniteSets, TLC

VARIABLES hosts, results, out

vars == <<hosts, results, out>>

(***************************************************************************)
(* Bounds and input domains.                                               *)
(***************************************************************************)
\* largest --retries value drawn by the ping command
MaxRetries == 3
\* largest number of host arguments of one add / remove command
MaxArgs == 2
\* largest length of the stored history
MaxHistory == 3

\* latencies (in ms) the external ping may print
Latencies == 1..2
\* non-zero exit statuses of the external ping
FailCodes == {1, 2}
\* readings of the wall clock (seconds field); it may be stepped backwards
ClockValues == {9, 10}
\* --timeout-ms values
TimeoutArgs == {500, 1000}
\* --retries values of the commands of the command model
ScanRetries == {0, 1}
\* --timeout-ms of the commands of the command model (the default)
DefaultTimeout == 1000

\* "a", "b", "c"
HostNames == {<<97>>, <<98>>, <<99>>}
\* command-line host arguments: "a", "b", "c", " a", "b ", " "
RawHosts == HostNames \cup {<<32, 97>>, <<98, 32>>, <<32>>}

(***************************************************************************)
(* Python values.                                                          *)
(***************************************************************************)
None == <<>>

Some(x) == <<x>>

Max(a, b) == IF a >= b THEN a ELSE b

Whitespace == {9, 10, 13, 32}

\* str < str: lexicographic by code point, a proper prefix is smaller
RECURSIVE StrLess(_, _)
StrLess(s, t) ==
  IF t = <<>> THEN FALSE
  ELSE IF s = <<>> THEN TRUE
  ELSE IF Head(s) # Head(t) THEN Head(s) < Head(t)
  ELSE StrLess(Tail(s), Tail(t))

StrGreater(s, t) == StrLess(t, s)

RECURSIVE LStrip(_)
LStrip(s) ==
  IF s # <<>> /\ Head(s) \in Whitespace THEN LStrip(Tail(s)) ELSE s

RECURSIVE RStrip(_)
RStrip(s) ==
  IF s # <<>> /\ s[Len(s)] \in Whitespace
  THEN RStrip(SubSeq(s, 1, Len(s) - 1)) ELSE s

\* str.strip()
Strip(s) == RStrip(LStrip(s))

\* x in list
In(x, list) == \E i \in 1..Len(list) : list[i] = x

\* datetime.utcnow().isoformat(timespec="seconds") + "Z": the zero-padded
\* seconds field followed by "Z"
isoformat(t) == <<48 + (t \div 10), 48 + (t % 10), 90>>

(***************************************************************************)
(* ping_once: what the external ping process did decides what is returned. *)
(*   exit     the process ended with returncode; time is the latency the   *)
(*            regular expression found in its output, if any               *)
(*   timeout  subprocess.run raised TimeoutExpired                         *)
(*   oserror  subprocess.run could not launch the command                  *)
(***************************************************************************)
TimeoutCode == 124

ProcOutcomes ==
  [kind : {"exit"}, returncode : {0} \cup FailCodes,
   time : {None} \cup {Some(l) : l \in Latencies}]
  \cup {[kind |-> "timeout", returncode |-> 0, time |-> None],
        [kind |-> "oserror", returncode |-> 0, time |-> None]}

ping_once(host, timeout_ms, proc) ==
  CASE proc.kind = "exit" ->
         [raised |-> FALSE, ok |-> (proc.returncode = 0), lat |-> proc.time,
          rc |-> proc.returncode]
    [] proc.kind = "timeout" ->
         [raised |-> FALSE, ok |-> FALSE, lat |-> None, rc |-> TimeoutCode]
    [] OTHER ->
         \* only TimeoutExpired is caught: any other exception propagates
         [raised |-> TRUE, ok |-> FALSE, lat |-> None, rc |-> 0]

(***************************************************************************)
(* ping_host.  env is what the external process does on the 1st, 2nd, ...  *)
(* call; a call beyond the script times out.                               *)
(***************************************************************************)
EnvAt(env, i) ==
  IF i <= Len(env) THEN env[i]
  ELSE [kind |-> "timeout", returncode |-> 0, time |-> None]

\* mutant: range(retries), without the lower bound of one attempt
NumAttemptsUnclamped(retries) == retries

\* range(max(1, retries)) and "attempts": max(1, retries)
NumAttempts(retries) == Max(1, retries)

\* if ok: successes += 1
UpdateSuccesses(successes, ok) == IF ok THEN successes + 1 ELSE successes

\* mutant: the latency is taken whether or not the attempt succeeded
UpdateBestAnyAttempt(best, ok, lat) ==
  IF lat # None /\ (best = None \/ lat[1] < best[1]) THEN lat ELSE best

\* if ok: if lat is not None and (best is None or lat < best): best = lat
UpdateBest(best, ok, lat) ==
  IF ok /\ lat # None /\ (best = None \/ lat[1] < best[1]) THEN lat ELSE best

\* mutant: the first attempt's code is kept
UpdateLastRcFirst(last_rc, rc) == IF last_rc = None THEN Some(rc) ELSE last_rc

\* last_rc = rc
UpdateLastRc(last_rc, rc) == Some(rc)

\* "reachable": successes > 0
Reachable(successes) == successes > 0

RECURSIVE PingLoop(_, _, _, _, _, _)
PingLoop(host, timeout_ms, n, env, i, acc) ==
  IF i > n \/ acc.raised THEN acc
  ELSE
    LET r == ping_once(host, timeout_ms, EnvAt(env, i))
        calls == Append(acc.calls, [host |-> host, timeout_ms |-> timeout_ms])
    IN IF r.raised
       THEN PingLoop(host, timeout_ms, n, env, i + 1,
                     [acc EXCEPT !.raised = TRUE, !.calls = calls,
                                 !.envs = Append(acc.envs, EnvAt(env, i))])
       ELSE PingLoop(host, timeout_ms, n, env, i + 1,
                     [raised |-> FALSE,
                      calls |-> calls,
                      envs |-> Append(acc.envs, EnvAt(env, i)),
                      best |-> UpdateBest(acc.best, r.ok, r.lat),
                      successes |-> UpdateSuccesses(acc.successes, r.ok),
                      last_rc |-> UpdateLastRc(acc.last_rc, r.rc)])

\* The result of ping_host: raised, the calls made to ping_once (calls: the
\* arguments, envs: what the process did in each), and the Measurement
\* returned (<<>> when the call raised).
ping_host(host, retries, timeout_ms, env, now) ==
  LET acc == PingLoop(host, timeout_ms, NumAttempts(retries), env, 1,
                      [raised |-> FALSE, calls |-> <<>>, envs |-> <<>>,
                       best |-> None,
                       successes |-> 0, last_rc |-> None])
  IN [raised |-> acc.raised,
      calls |-> acc.calls,
      envs |-> acc.envs,
      m |-> IF acc.raised THEN <<>>
            ELSE <<[host |-> host,
                    reachable |-> Reachable(acc.successes),
                    latency_ms |-> acc.best,
                    timestamp |-> isoformat(now),
                    raw_exit |-> acc.last_rc,
                    attempts |-> NumAttempts(retries),
                    successes |-> acc.successes]>>]

(***************************************************************************)
(* Host list commands.                                                     *)
(***************************************************************************)
\* mutant: the host is appended without the test for membership
AddHostUnchecked(acc, raw) ==
  LET h == Strip(raw)
  IN IF h # <<>>
     THEN [hosts |-> Append(acc.hosts, h), new_hosts |-> Append(acc.new_hosts, h)]
     ELSE acc

\* for h in args.hosts: h = h.strip(); if h and h not in hosts: append
AddHost(acc, raw) ==
  LET h == Strip(raw)
  IN IF h # <<>> /\ ~In(h, acc.hosts)
     THEN [hosts |-> Append(acc.hosts, h), new_hosts |-> Append(acc.new_hosts, h)]
     ELSE acc

RECURSIVE AddLoop(_, _)
AddLoop(acc, args) ==
  IF args = <<>> THEN acc ELSE AddLoop(AddHost(acc, Head(args)), Tail(args))

\* list.remove(h): drops the first occurrence of h
RECURSIVE ListRemove(_, _)
ListRemove(list, h) ==
  IF list = <<>> THEN <<>>
  ELSE IF Head(list) = h THEN Tail(list)
  ELSE <<Head(list)>> \o ListRemove(Tail(list), h)

\* for h in args.hosts: if h in hosts: hosts.remove(h)
RemoveHost(list, h) == IF In(h, list) THEN ListRemove(list, h) ELSE list

RECURSIVE RemoveLoop(_, _)
RemoveLoop(list, args) ==
  IF args = <<>> THEN list ELSE RemoveLoop(RemoveHost(list, Head(args)), Tail(args))

\* set(list)
SetOf(list) == {list[i] : i \in 1..Len(list)}

\* args.hosts (nargs="+"): one or more raw strings
HostArgs == UNION {[1..n -> RawHosts] : n \in 1..MaxArgs}

NoOutput ==
  [cmd |-> "none", hostargs |-> <<>>, before |-> <<>>, reported |-> <<>>]

cmd_add ==
  \E args \in HostArgs :
    LET acc == AddLoop([hosts |-> hosts, new_hosts |-> <<>>], args)
    IN /\ hosts' = acc.hosts
       /\ out' = [cmd |-> "add", hostargs |-> args, before |-> hosts,
                  reported |-> acc.new_hosts]
       /\ UNCHANGED results

cmd_remove ==
  \E args \in HostArgs :
    LET after == RemoveLoop(hosts, args)
    IN /\ hosts' = after
       /\ out' = [cmd |-> "remove", hostargs |-> args, before |-> hosts,
                  reported |-> SetOf(hosts) \ SetOf(after)]
       /\ UNCHANGED results

cmd_list ==
  /\ out' = [cmd |-> "list", hostargs |-> <<>>, before |-> hosts,
             reported |-> hosts]
  /\ UNCHANGED <<hosts, results>>

InitHosts == hosts = <<>> /\ results = <<>> /\ out = NoOutput

NextHosts == cmd_add \/ cmd_remove \/ cmd_list

SpecHosts == InitHosts /\ [][NextHosts]_vars

(***************************************************************************)
(* The latest-per-host reduction and the report order.  A Python dict      *)
(* keeps its keys in the order of their first insertion, so latest is the  *)
(* sequence of its values in that order.                                   *)
(***************************************************************************)
\* r.get("timestamp") or "": every stored Measurement has a timestamp string
TsOf(r) == r.timestamp

\* mutant: ts >= ..., a record of equal timestamp replaces the kept one
NewerOrEqual(ts, old) == ~StrLess(ts, old)

\* mutant: no comparison, the last record of a host is kept
NewerAlways(ts, old) == TRUE

\* ts > latest[host].get("timestamp", "")
Newer(ts, old) == StrGreater(ts, old)

\* if host not in latest or ts > latest[host]...: latest[host] = r
LatestStep(latest, r) ==
  IF \E i \in 1..Len(latest) : latest[i].host = r.host
  THEN LET i == CHOOSE j \in 1..Len(latest) : latest[j].host = r.host
       IN IF Newer(TsOf(r), TsOf(latest[i]))
          THEN [latest EXCEPT ![i] = r] ELSE latest
  ELSE Append(latest, r)

\* latest = {}; for r in results: ...; rows = list(latest.values())
RECURSIVE LatestLoop(_, _)
LatestLoop(latest, rs) ==
  IF rs = <<>> THEN latest ELSE LatestLoop(LatestStep(latest, Head(rs)), Tail(rs))

latest_per_host(rs) == LatestLoop(<<>>, rs)

\* the key value of a row without a latency
NoLatencyKey == 1000000000

\* mutant: a missing latency sorts as 0
LatencyKeyZero(lat) == IF lat # None THEN lat[1] ELSE 0

\* r["latency_ms"] if r["latency_ms"] is not None else 1e9
LatencyKey(lat) == IF lat # None THEN lat[1] ELSE NoLatencyKey

\* key=lambda r: (not r["reachable"], <latency key>, r["host"])
SortKey(r) == <<~r.reachable, LatencyKey(r.latency_ms), r.host>>

\* tuple < tuple on (bool, float, str): False < True, then the next item
KeyLess(a, b) ==
  \/ (~a[1] /\ b[1])
  \/ /\ a[1] = b[1]
     /\ \/ a[2] < b[2]
        \/ (a[2] = b[2] /\ StrLess(a[3], b[3]))

\* list.sort is stable: a row goes after the rows whose key is not greater
RECURSIVE SortInsert(_, _)
SortInsert(sorted, r) ==
  IF sorted = <<>> THEN <<r>>
  ELSE IF KeyLess(SortKey(r), SortKey(Head(sorted)))
       THEN <<r>> \o sorted
       ELSE <<Head(sorted)>> \o SortInsert(Tail(sorted), r)

RECURSIVE SortLoop(_, _)
SortLoop(sorted, rows) ==
  IF rows = <<>> THEN sorted ELSE SortLoop(SortInsert(sorted, Head(rows)), Tail(rows))

\* rows.sort(key=...)
SortRows(rows) == SortLoop(<<>>, rows)

(***************************************************************************)
(* ping, scan, report, export.  out records the last command: whether it   *)
(* ended by an exception, how many hosts a scan probed and whether it      *)
(* saved, and the rows a report printed or an export wrote.                *)
(***************************************************************************)
NoCommand ==
  [cmd |-> "none", raised |-> FALSE, failed |-> FALSE, probed |-> 0,
   saved |-> FALSE, latest |-> FALSE, rows |-> <<>>]

\* sequences of process outcomes, one per call of ping_once
Envs(n) == [1..n -> ProcOutcomes]

\* every way one ping_host(host, retries, timeout_ms) call of a command can
\* end, over what the processes do and what the clock reads
PingRuns ==
  [host \in HostNames, retries \in ScanRetries |->
     {ping_host(host, retries, DefaultTimeout, env, now) :
        env \in Envs(NumAttempts(retries)), now \in ClockValues}]

LaunchFailed(r) == \E k \in 1..Len(r.envs) : r.envs[k].kind = "oserror"

\* result = ping_host(args.host, ...); print_result(result): how the command
\* can end, over its arguments
PingEndings ==
  {[raised |-> r.raised, failed |-> LaunchFailed(r)] :
     r \in UNION {PingRuns[host, retries] :
                    host \in HostNames, retries \in ScanRetries}}

cmd_ping ==
  \E e \in PingEndings :
    /\ out' = [NoCommand EXCEPT !.cmd = "ping", !.raised = e.raised,
                                !.failed = e.failed]
    /\ UNCHANGED <<hosts, results>>

\* for h in hosts: r = ping_host(h, ...); batch.append(r)
\* an exception ends the loop and the command
ScanStep(acc, r) ==
  [probed |-> acc.probed + 1, raised |-> r.raised,
   failed |-> acc.failed \/ LaunchFailed(r), batch |-> acc.batch \o r.m]

\* results.extend(batch); save_results(results): reached only without exception
ScanEnd(acc) ==
  /\ results' = IF acc.raised THEN results ELSE results \o acc.batch
  /\ out' = [NoCommand EXCEPT !.cmd = "scan", !.raised = acc.raised,
                              !.failed = acc.failed, !.probed = acc.probed,
                              !.saved = ~acc.raised]
  /\ UNCHANGED hosts

RECURSIVE ScanLoop(_, _)
ScanLoop(retries, acc) ==
  IF acc.probed = Len(hosts) \/ acc.raised THEN ScanEnd(acc)
  ELSE \E r \in PingRuns[hosts[acc.probed + 1], retries] :
         ScanLoop(retries, ScanStep(acc, r))

cmd_scan ==
  IF hosts = <<>>
  THEN /\ out' = [NoCommand EXCEPT !.cmd = "scan"]
       /\ UNCHANGED <<hosts, results>>
  ELSE
    /\ Len(results) + Len(hosts) <= MaxHistory
    /\ \E retries \in ScanRetries :
         ScanLoop(retries, [probed |-> 0, raised |-> FALSE, failed |-> FALSE,
                            batch |-> <<>>])

cmd_report ==
  /\ out' = [NoCommand EXCEPT !.cmd = "report", !.latest = TRUE,
                              !.rows = IF results = <<>> THEN <<>>
                                       ELSE SortRows(latest_per_host(results))]
  /\ UNCHANGED <<hosts, results>>

cmd_export ==
  \E latest \in BOOLEAN :
    /\ out' = [NoCommand EXCEPT !.cmd = "export", !.latest = latest,
                                !.rows = IF latest THEN latest_per_host(results)
                                         ELSE results]
    /\ UNCHANGED <<hosts, results>>

\* the host lists add and remove can leave in hosts.json
SavedHostLists ==
  {l \in UNION {[1..n -> HostNames] : n \in 0..Cardinality(HostNames)} :
     \A i, j \in 1..Len(l) : l[i] = l[j] => i = j}

Init == hosts \in SavedHostLists /\ results = <<>> /\ out = NoCommand

Next == cmd_ping \/ cmd_scan \/ cmd_report \/ cmd_export

Spec == Init /\ [][Next]_vars

(***************************************************************************)
(* ping_host as a function of its inputs: the initial states draw the      *)
(* arguments, what the external process does in each call and the clock    *)
(* reading; the one action applies ping_host.                              *)
(***************************************************************************)
PingInputs ==
  UNION {[cmd : {"ping_host"}, done : {FALSE}, host : {<<97>>},
          retries : {retries}, timeout_ms : TimeoutArgs,
          env : Envs(NumAttempts(retries)), now : ClockValues,
          raised : {FALSE}, calls : {<<>>}, envs : {<<>>}, m : {<<>>}] :
           retries \in -1..MaxRetries}

call_ping_host ==
  /\ ~out.done
  /\ LET r == ping_host(out.host, out.retries, out.timeout_ms, out.env, out.now)
     IN out' = [out EXCEPT !.done = TRUE, !.raised = r.raised,
                           !.calls = r.calls, !.envs = r.envs, !.m = r.m]
  /\ UNCHANGED <<hosts, results>>

InitPing == hosts = <<>> /\ results = <<>> /\ out \in PingInputs

NextPing == call_ping_host

SpecPing == InitPing /\ [][NextPing]_vars

\* ping_host returned a Measurement
Returned == out.cmd = "ping_host" /\ out.done /\ ~out.raised

\* the attempt whose process did p succeeded / failed
Succeeded(p) == p.kind = "exit" /\ p.returncode = 0

\* the exit code an attempt reports: the process's, or the timeout sentinel
ExitOf(p) == IF p.kind = "timeout" THEN TimeoutCode ELSE p.returncode

(***************************************************************************)
(* C4: the latency_ms of the Measurement ping_host returns is the minimum  *)
(* latency over the attempts that succeeded and reported a latency, and    *)
(* None when there is no such attempt; a success without a latency counts  *)
(* as a success; the latency of a failed attempt is ignored.               *)
(***************************************************************************)
C4_MinLatency ==
  Returned =>
    LET m == out.m[1]
        good == {k \in 1..Len(out.envs) :
                   Succeeded(out.envs[k]) /\ out.envs[k].time # None}
    IN /\ good = {} => m.latency_ms = None
       /\ good # {} =>
            /\ m.latency_ms # None
            /\ \E k \in good : out.envs[k].time = m.latency_ms
            /\ \A k \in good : m.latency_ms[1] <= out.envs[k].time[1]
       /\ m.successes =
            Cardinality({k \in 1..Len(out.envs) : Succeeded(out.envs[k])})

\* a failed attempt printed a lower latency than every success, and one
\* success printed none
C4_Witness ==
  /\ Returned
  /\ out.m[1].latency_ms # None
  /\ \E k \in 1..Len(out.envs) :
       /\ ~Succeeded(out.envs[k])
       /\ out.envs[k].time # None
       /\ out.envs[k].time[1] < out.m[1].latency_ms[1]
  /\ \E k \in 1..Len(out.envs) :
       Succeeded(out.envs[k]) /\ out.envs[k].time = None

(***************************************************************************)
(* C5: for every retries, ping_host makes exactly max(1, retries) calls to *)
(* ping_once, each with the same host and timeout, and the attempts field  *)
(* of the Measurement is the number of calls made.                         *)
(***************************************************************************)
C5_ExactlyMaxOneRetriesCalls ==
  (out.cmd = "ping_host" /\ out.done) =>
    /\ Len(out.calls) = (IF out.retries >= 1 THEN out.retries ELSE 1)
    /\ \A k \in 1..Len(out.calls) :
         out.calls[k] = [host |-> out.host, timeout_ms |-> out.timeout_ms]
    /\ ~out.raised => out.m[1].attempts = Len(out.calls)

(***************************************************************************)
(* C6: raw_exit of the Measurement is the exit code (124 for a timeout) of *)
(* the last attempt made; when every attempt failed the Measurement is     *)
(* unreachable, without latency, with no success, and raw_exit is the last *)
(* attempt's failure code.                                                 *)
(***************************************************************************)
C6_RawExitIsLast ==
  Returned =>
    LET m == out.m[1]
        n == Len(out.envs)
    IN /\ n >= 1
       /\ m.raw_exit = Some(ExitOf(out.envs[n]))
       /\ (\A k \in 1..n : ~Succeeded(out.envs[k])) =>
            /\ m.reachable = FALSE
            /\ m.latency_ms = None
            /\ m.successes = 0
            /\ m.raw_exit # Some(0)

\* the first, a middle and the last attempt ended with three different codes
C6_Witness ==
  /\ Returned
  /\ Len(out.envs) >= 3
  /\ ExitOf(out.envs[1]) # ExitOf(out.envs[Len(out.envs)])
  /\ ExitOf(out.envs[2]) # ExitOf(out.envs[Len(out.envs)])
  /\ Succeeded(out.envs[2])
  /\ out.m[1].raw_exit = Some(TimeoutCode)

(***************************************************************************)
(* C7: every Measurement ping_host produces has attempts >= 1,             *)
(* 0 <= successes <= attempts and reachable = (successes > 0), with or     *)
(* without a latency.                                                      *)
(***************************************************************************)
C7_MeasurementInvariant ==
  Returned =>
    LET m == out.m[1]
    IN /\ m.attempts >= 1
       /\ 0 <= m.successes
       /\ m.successes <= m.attempts
       /\ m.reachable = (m.successes > 0)

\* reachable without a latency, for a retries value below 1
C7_Witness ==
  /\ Returned
  /\ out.retries <= 0
  /\ out.m[1].reachable
  /\ out.m[1].latency_ms = None

(***************************************************************************)
(* Claims about the host list (SpecHosts).                                 *)
(***************************************************************************)
NoDuplicates(list) == \A i, j \in 1..Len(list) : list[i] = list[j] => i = j

\* list without the members of S, the others in their order
RECURSIVE Without(_, _)
Without(list, S) ==
  IF list = <<>> THEN <<>>
  ELSE IF Head(list) \in S THEN Without(Tail(list), S)
  ELSE <<Head(list)>> \o Without(Tail(list), S)

(***************************************************************************)
(* C9: from an empty list, after any adds and removes the saved list has   *)
(* no duplicates and keeps the surviving hosts in insertion order: an add  *)
(* appends, in argument order, exactly the stripped non-empty arguments    *)
(* not yet present (each once) and reports them; a remove drops exactly    *)
(* the arguments that were present and reports them; nothing else changes. *)
(***************************************************************************)
C9_HostListUnique ==
  /\ NoDuplicates(hosts)
  /\ out.cmd = "add" =>
       LET args == out.hostargs
           fresh == {k \in 1..Len(args) :
                       /\ Strip(args[k]) # <<>>
                       /\ Strip(args[k]) \notin SetOf(out.before)
                       /\ \A j \in 1..(k - 1) : Strip(args[j]) # Strip(args[k])}
       IN /\ hosts = out.before \o out.reported
          /\ Len(out.reported) = Cardinality(fresh)
          /\ \A i \in 1..Len(out.reported) :
               \E k \in fresh :
                 /\ out.reported[i] = Strip(args[k])
                 /\ Cardinality({j \in fresh : j < k}) = i - 1
  /\ out.cmd = "remove" =>
       /\ hosts = Without(out.before, SetOf(out.hostargs))
       /\ out.reported = SetOf(out.before) \cap SetOf(out.hostargs)
       /\ out.reported = SetOf(out.before) \ SetOf(hosts)

\* a remove took the middle one of three hosts and ignored an absent one
C9_Witness ==
  /\ out.cmd = "remove"
  /\ Len(out.before) = 3
  /\ hosts = <<out.before[1], out.before[3]>>
  /\ \E k \in 1..Len(out.hostargs) : out.hostargs[k] \notin SetOf(out.before)

(***************************************************************************)
(* Claims about scan, report and export (Spec).                            *)
(***************************************************************************)
\* the command printed or wrote the latest-per-host rows of a history
LatestShown ==
  /\ out.cmd \in {"report", "export"}
  /\ out.latest
  /\ results # <<>>

\* the places of the history holding host h with timestamp ts
Places(h, ts) ==
  {i \in 1..Len(results) : results[i].host = h /\ results[i].timestamp = ts}

(***************************************************************************)
(* C1: a launch failure of the ping command during an attempt is a failed  *)
(* attempt, not an exception out of ping_host: a scan in which it happens  *)
(* still probes every saved host and saves the batch.                      *)
(***************************************************************************)
C1_LaunchFailureIsFailedAttempt ==
  (out.cmd = "scan" /\ out.failed) =>
    /\ ~out.raised
    /\ out.probed = Len(hosts)
    /\ out.saved

(***************************************************************************)
(* C2 as stated: of the records of one host with equal timestamps, the     *)
(* latest-per-host reduction keeps the one met last in the history.        *)
(***************************************************************************)
C2_LastOfEqualKept ==
  LatestShown =>
    \A k \in 1..Len(out.rows) :
      LET P == Places(out.rows[k].host, out.rows[k].timestamp)
      IN \E i \in P : out.rows[k] = results[i] /\ \A j \in P : j <= i

(***************************************************************************)
(* C2 amended: of the records of one host with equal timestamps, the       *)
(* reduction keeps the one met first in the history (a record replaces the *)
(* kept one only when its timestamp is strictly greater).                  *)
(***************************************************************************)
C2_FirstOfEqualKept ==
  LatestShown =>
    \A k \in 1..Len(out.rows) :
      LET P == Places(out.rows[k].host, out.rows[k].timestamp)
      IN \E i \in P : out.rows[k] = results[i] /\ \A j \in P : i <= j

\* two different records of one host carry the timestamp of the kept row
C2_Witness ==
  /\ LatestShown
  /\ \E k \in 1..Len(out.rows) :
       \E i, j \in Places(out.rows[k].host, out.rows[k].timestamp) :
         i < j /\ results[i] # results[j]

(***************************************************************************)
(* C3: for a non-empty history the reduction returns exactly one record    *)
(* per host of the history, and that record is a record of the history     *)
(* whose timestamp string is the greatest among the host's records.        *)
(***************************************************************************)
C3_OnePerHostGreatest ==
  LatestShown =>
    /\ {out.rows[k].host : k \in 1..Len(out.rows)} =
         {results[i].host : i \in 1..Len(results)}
    /\ \A k, l \in 1..Len(out.rows) :
         out.rows[k].host = out.rows[l].host => k = l
    /\ \A k \in 1..Len(out.rows) :
         /\ \E i \in 1..Len(results) : results[i] = out.rows[k]
         /\ \A j \in 1..Len(results) :
              results[j].host = out.rows[k].host =>
                ~StrLess(out.rows[k].timestamp, results[j].timestamp)

\* the kept record is not the host's last: a later one is strictly older
C3_Witness ==
  /\ LatestShown
  /\ \E k \in 1..Len(out.rows) :
       \E i, j \in 1..Len(results) :
         /\ i < j
         /\ results[i] = out.rows[k]
         /\ results[j].host = out.rows[k].host
         /\ StrLess(results[j].timestamp, results[i].timestamp)

\* row a must come before row b in the report
Precedes(a, b) ==
  \/ a.reachable /\ ~b.reachable
  \/ /\ a.reachable = b.reachable
     /\ \/ a.latency_ms # None /\ b.latency_ms = None /\ a.reachable
        \/ /\ a.latency_ms # None /\ b.latency_ms # None
           /\ a.latency_ms[1] < b.latency_ms[1]
        \/ /\ a.latency_ms = b.latency_ms
           /\ StrLess(a.host, b.host)

\* the orders in which the same rows can be handed to the sort
Orders(rows) ==
  {[k \in 1..Len(rows) |-> rows[p[k]]] :
     p \in {q \in [1..Len(rows) -> 1..Len(rows)] :
              \A i, j \in 1..Len(rows) : q[i] = q[j] => i = j}}

C10_HistoryOnlyGrows ==
  [][/\ Len(results) <= Len(results')
     /\ SubSeq(results', 1, Len(results)) = results
     /\ out'.cmd = "scan" =>
          /\ Len(results') = Len(results) + Len(hosts)
          /\ \A i \in 1..Len(hosts) : results'[Len(results) + i].host = hosts[i]
     /\ out'.cmd \in {"ping", "report", "export"} => results' = results]_vars

====
